---- MODULE Spec2Model ----
(***************************************************************************)
(* Model of the UptimeMonitor engine (src/app.js): the cron-driven         *)
(* checkMonitors, the per-monitor pipeline handleMonitor (checkStatus,     *)
(* updateMonitorStatus, sendWebhook) and the API handlers that share the   *)
(* Monitor / MonitorLog tables with it.                                    *)
(*                                                                         *)
(* src/app.js holds two variants of the program (lines 1-240 and 242-462); *)
(* the variable `variant` selects the one that is running.                 *)
(***************************************************************************)
EXTENDS Integers, Sequences, FiniteSets, TLC

\* ------------------------------------------------------------------ bounds
\* Number of cron firings explored.
MaxTicks == 2
\* Number of database operations that may fail.
MaxFaults == 1
\* Number of DELETE /delete-all-monitors requests explored.
MaxDeletes == 1
\* Highest Monitor row id explored (ids are never reused, so an address
\* added again after a delete-all is a row with a higher id).
MaxRowId == 1
\* Number of monitors that may hold a webhookUrl at the same time.
MaxHooks == 1

\* --------------------------------------------------------------- addresses
\* An address (Monitor.ipOrUrl) is the sequence of its characters.
Digits == {"0", "1", "2", "3", "4", "5", "6", "7", "8", "9"}

\* s.split('.') : the dot-separated parts of a character sequence.
RECURSIVE SplitDots(_, _, _)
SplitDots(s, i, cur) ==
  IF i > Len(s) THEN <<cur>>
  ELSE IF s[i] = "." THEN <<cur>> \o SplitDots(s, i + 1, <<>>)
  ELSE SplitDots(s, i + 1, Append(cur, s[i]))

AllDigits(p) == \A i \in 1..Len(p) : p[i] \in Digits

\* 25[0-5]|2[0-4][0-9]|[01]?[0-9][0-9]?
OctetStrict(p) ==
  /\ AllDigits(p)
  /\ \/ Len(p) = 3 /\ p[1] = "2" /\ p[2] = "5" /\ p[3] \in {"0", "1", "2", "3", "4", "5"}
     \/ Len(p) = 3 /\ p[1] = "2" /\ p[2] \in {"0", "1", "2", "3", "4"}
     \/ Len(p) = 3 /\ p[1] \in {"0", "1"}
     \/ Len(p) = 2
     \/ Len(p) = 1

\* [0-5]?[0-9]|[01]?[0-9][0-9]?
OctetLoose(p) ==
  /\ AllDigits(p)
  /\ \/ Len(p) = 2 /\ p[1] \in {"0", "1", "2", "3", "4", "5"}
     \/ Len(p) = 3 /\ p[1] \in {"0", "1"}
     \/ Len(p) = 2
     \/ Len(p) = 1

\* The anchored dotted-quad regex of checkIpAddress (variant 1) and of the
\* inline isIpAddress test (variant 2), applied to the address characters.
checkIpAddress(v, s) ==
  LET parts == SplitDots(s, 1, <<>>) IN
  /\ Len(parts) = 4
  /\ OctetStrict(parts[1])
  /\ \A k \in 2..4 : IF v = 1 THEN OctetStrict(parts[k]) ELSE OctetLoose(parts[k])

\* Whether fetch can issue a request to the address at all: node-fetch
\* rejects with a TypeError an address that is no absolute URL.
Scheme == <<"h", "t", "t", "p", ":", "/", "/">>
IsAbsoluteUrl(s) == Len(s) > Len(Scheme) /\ SubSeq(s, 1, Len(Scheme)) = Scheme

\* The addresses of the two monitors of the scheduler model.
Targets == {"ip", "url"}
ipOrUrl(t) ==
  IF t = "ip"
    THEN <<"8", ".", "8", ".", "8", ".", "8">>
    ELSE Scheme \o <<"e", ".", "c", "o", "m">>

\* ------------------------------------------------------------------ probe
Statuses == {"online", "offline", "timeout"}
NoStatus == "none"

\* What ping.promise.probe can do: resolve alive, resolve not alive, reject.
PingOutcomes == {"alive", "noReply", "pingError"}
\* What fetch(url, {method: 'HEAD', signal}) can do: resolve with a 2xx or
\* another response, reject with AbortError (the timer fired), or reject
\* with another transport error.
TransportErrors == {"dnsFailure", "connRefused", "tlsFailure"}
FetchOutcomes == {"res2xx", "resOther", "abort"} \cup TransportErrors
AllOutcomes == PingOutcomes \cup FetchOutcomes \cup {"notAbsoluteUrl"}

\* The outcomes the network call checkStatus makes for address s can have.
NetOutcomes(v, s) ==
  IF checkIpAddress(v, s) THEN PingOutcomes
  ELSE IF IsAbsoluteUrl(s) THEN FetchOutcomes
  ELSE {"notAbsoluteUrl"}

Return(s) == [threw |-> FALSE, status |-> s]
Throw == [threw |-> TRUE, status |-> NoStatus]

\* Mutant of FetchCatch: the AbortError of the timeout timer is rethrown like
\* any other error.
FetchCatchRethrowsAbort(v, o) == Throw

\* The catch block of the URL branch of checkStatus: 'offline' (variant 1)
\* or 'timeout' (variant 2) for an AbortError, any other error is rethrown.
FetchCatch(v, o) ==
  IF o = "abort"
    THEN (IF v = 1 THEN Return("offline") ELSE Return("timeout"))
    ELSE Throw

\* checkStatus(monitor) for address s and network outcome o.
checkStatus(v, s, o) ==
  IF checkIpAddress(v, s)
    THEN IF o = "pingError" THEN Return("offline")
         ELSE IF o = "alive" THEN Return("online") ELSE Return("offline")
    ELSE IF o = "res2xx" THEN Return("online")
         ELSE IF o = "resOther" THEN Return("offline")
         ELSE FetchCatch(v, o)

\* ------------------------------------------------------------------ state
NoHook == "none"
\* The webhook URLs a client may register with POST /add-webhook.
Hooks == {"hook"}

Ticks == 1..MaxTicks

VARIABLES
  variant,        \* which of the two variants of src/app.js is running
  monitors,       \* the Monitor table: one row per address, or none
  logs,           \* the MonitorLog table: per address, its rows in creation order
  minute,         \* number of cron firings so far (the wall clock, in minutes)
  epoch,          \* number of Monitor.destroy({where: {}}) executed so far
  deleting,       \* a /delete-all-monitors request is between its two destroys
  tick,           \* per cron firing: the position of its checkMonitors call
  runs,           \* per cron firing and address: the handleMonitor call
  faults,         \* number of database operations that have failed so far
  probed,         \* history: per address, the statuses checkStatus returned
  probe           \* the last checkStatus call made on its own (ProbeSpec)

vars == <<variant, monitors, logs, minute, epoch, deleting,
          tick, runs, faults, probed, probe>>

\* defaultValue of Monitor.lastStatus: 'offline' in the model file that goes
\* with variant 1 (no portNumber column, like src/models/monitorLog.js),
\* 'online' in the one that goes with variant 2 (portNumber column, like the
\* MonitorLog model that follows variant 2 in src/app.js).
DefaultStatus(v) == IF v = 1 THEN "offline" ELSE "online"

\* An absent Monitor row.
NoRow == [exists |-> FALSE, id |-> 0, lastStatus |-> NoStatus,
          lastChecked |-> 0, webhookUrl |-> NoHook]

\* A handleMonitor call that checkMonitors has not made.
NoRun == [pc |-> "none", id |-> 0, lastStatus |-> NoStatus,
          webhookUrl |-> NoHook, status |-> NoStatus, created |-> FALSE,
          updated |-> FALSE, posts |-> 0, postStatus |-> NoStatus,
          delivery |-> "none", error |-> "none"]

\* handleMonitor(monitor) up to its first await: checkStatus has issued the
\* ping or the HEAD request; monitor is the instance findAll returned.
StartRun(row) ==
  [NoRun EXCEPT !.pc = "probing", !.id = row.id,
                !.lastStatus = row.lastStatus, !.webhookUrl = row.webhookUrl]

\* No checkStatus call made on its own yet.
NoProbe == [address |-> <<>>, outcome |-> "none", result |-> Return(NoStatus)]

Init ==
  /\ variant \in {1, 2}
  /\ monitors = [t \in Targets |-> NoRow]
  /\ logs = [t \in Targets |-> <<>>]
  /\ minute = 0
  /\ epoch = 0
  /\ deleting = FALSE
  /\ tick = [n \in Ticks |-> "idle"]
  /\ runs = [n \in Ticks |-> [t \in Targets |-> NoRun]]
  /\ faults = 0
  /\ probed = [t \in Targets |-> <<>>]
  /\ probe = NoProbe

\* ------------------------------------------------------------ API handlers
\* POST /add-monitor: creates the row with the model's defaults unless a row
\* with this ipOrUrl exists (variant 1 then rewrites ipOrUrl to itself,
\* variant 2 answers 400; neither changes the row).
AddMonitor(t) ==
  /\ ~monitors[t].exists
  /\ epoch + 1 <= MaxRowId
  /\ monitors' = [monitors EXCEPT ![t] =
       [exists |-> TRUE, id |-> epoch + 1, lastStatus |-> DefaultStatus(variant),
        lastChecked |-> 0, webhookUrl |-> NoHook]]
  /\ UNCHANGED <<probe, probed, variant, logs, minute, epoch, deleting, tick,
                 runs, faults>>

\* POST /add-webhook: 404 without a row, else writes webhookUrl only.
AddWebhook(t, h) ==
  /\ monitors[t].exists
  /\ monitors[t].webhookUrl # h
  /\ Cardinality({u \in Targets \ {t} : monitors[u].webhookUrl # NoHook}) < MaxHooks
  /\ monitors' = [monitors EXCEPT ![t].webhookUrl = h]
  /\ UNCHANGED <<probe, probed, variant, logs, minute, epoch, deleting, tick,
                 runs, faults>>

\* DELETE /delete-all-monitors (variant 1 only), first await: Monitor.destroy.
DeleteMonitors ==
  /\ variant = 1
  /\ ~deleting
  /\ epoch < MaxDeletes
  /\ monitors' = [t \in Targets |-> NoRow]
  /\ epoch' = epoch + 1
  /\ deleting' = TRUE
  /\ UNCHANGED <<probe, probed, variant, logs, minute, tick, runs, faults>>

\* DELETE /delete-all-monitors, second await: MonitorLog.destroy.
DeleteLogs ==
  /\ deleting
  /\ logs' = [t \in Targets |-> <<>>]
  /\ deleting' = FALSE
  /\ UNCHANGED <<probe, probed, variant, monitors, minute, epoch, tick, runs,
                 faults>>

\* --------------------------------------------------------------- scheduler
\* cron.schedule('* * * * *', checkMonitors): node-cron calls checkMonitors
\* at every minute boundary, whatever earlier calls are doing; the call runs
\* to its first await, Monitor.findAll().
CronFire ==
  /\ minute < MaxTicks
  /\ minute' = minute + 1
  /\ tick' = [tick EXCEPT ![minute + 1] = "listing"]
  /\ UNCHANGED <<probe, probed, variant, monitors, logs, epoch, deleting,
                 runs, faults>>

\* Monitor.findAll() resolves: monitors.map(handleMonitor) starts one
\* handleMonitor per row, each on its own copy of the row.
FindAllDone(n) ==
  /\ tick[n] = "listing"
  /\ tick' = [tick EXCEPT ![n] = "running"]
  /\ runs' = [runs EXCEPT ![n] = [t \in Targets |->
       IF monitors[t].exists THEN StartRun(monitors[t]) ELSE NoRun]]
  /\ UNCHANGED <<probe, probed, variant, monitors, logs, minute, epoch,
                 deleting, faults>>

\* Monitor.findAll() rejects: checkMonitors rejects before any handleMonitor.
FindAllFail(n) ==
  /\ tick[n] = "listing"
  /\ faults < MaxFaults
  /\ faults' = faults + 1
  /\ tick' = [tick EXCEPT ![n] = "rejected"]
  /\ UNCHANGED <<probe, probed, variant, monitors, logs, minute, epoch,
                 deleting, runs>>

\* A handleMonitor call that has been made and has not returned.
Unfinished(r) == r.pc \in {"probing", "creating", "updating", "posting"}

\* Every handleMonitor call of the firing has returned.
AllDone(n) == \A t \in Targets : runs[n][t].pc \in {"none", "done"}

\* `await Promise.all(...)` resolves (handleMonitor never rejects, so it
\* resolves when the last call returns, at once for an empty list):
\* checkMonitors returns and its promises are dropped.
FanIn(n) ==
  /\ tick[n] = "running"
  /\ AllDone(n)
  /\ tick' = [tick EXCEPT ![n] = "complete"]
  /\ runs' = [runs EXCEPT ![n] = [t \in Targets |-> NoRun]]
  /\ UNCHANGED <<probe, probed, variant, monitors, logs, minute, epoch,
                 deleting, faults>>

\* ---------------------------------------------------------------- pipeline
\* Mutant of Caught: the error ends every call of the checkMonitors, as when
\* the pipelines share one try block.
CaughtAbortsAll(rs, t, stage) ==
  [u \in Targets |->
     IF u = t THEN [rs[u] EXCEPT !.pc = "done", !.error = stage]
     ELSE IF Unfinished(rs[u]) THEN [rs[u] EXCEPT !.pc = "done"]
     ELSE rs[u]]

\* The catch block of handleMonitor, for an error thrown at `stage` in the
\* call for address t: the error is logged and that call returns; rs are the
\* handleMonitor calls of the same checkMonitors, the others are not touched.
Caught(rs, t, stage) == [rs EXCEPT ![t].pc = "done", ![t].error = stage]

\* handleMonitor after `await checkStatus(monitor)` returned status: a
\* status equal to monitor.lastStatus ends the call, another status issues
\* MonitorLog.create (the first await of updateMonitorStatus).
AfterProbe(r, status) ==
  IF status # r.lastStatus
    THEN [r EXCEPT !.pc = "creating", !.status = status]
    ELSE [r EXCEPT !.pc = "done", !.status = status]

\* `await checkStatus(monitor)` ends, for network outcome o: a thrown error
\* goes to the catch block of handleMonitor.
ProbeDone(n, t, o) ==
  LET res == checkStatus(variant, ipOrUrl(t), o) IN
  /\ runs[n][t].pc = "probing"
  /\ o \in NetOutcomes(variant, ipOrUrl(t))
  /\ runs' = [runs EXCEPT ![n] =
       IF res.threw THEN Caught(@, t, "probe")
       ELSE [@ EXCEPT ![t] = AfterProbe(@, res.status)]]
  /\ probed' = IF res.threw THEN probed
               ELSE [probed EXCEPT ![t] = Append(@, res.status)]
  /\ UNCHANGED <<probe, variant, monitors, logs, minute, epoch, deleting,
                 tick, faults>>

\* updateMonitorStatus: MonitorLog.create resolves, monitor.update is issued.
CreateDone(n, t) ==
  /\ runs[n][t].pc = "creating"
  /\ logs' = [logs EXCEPT ![t] = Append(@, runs[n][t].status)]
  /\ runs' = [runs EXCEPT ![n][t].pc = "updating", ![n][t].created = TRUE]
  /\ UNCHANGED <<probe, probed, variant, monitors, minute, epoch, deleting,
                 tick, faults>>

\* updateMonitorStatus: MonitorLog.create rejects.
CreateFail(n, t) ==
  /\ runs[n][t].pc = "creating"
  /\ faults < MaxFaults
  /\ faults' = faults + 1
  /\ runs' = [runs EXCEPT ![n] = Caught(@, t, "create")]
  /\ UNCHANGED <<probe, probed, variant, monitors, logs, minute, epoch,
                 deleting, tick>>

\* sendWebhook(monitor, status) up to its first await: nothing without a
\* webhookUrl on the instance, else the POST is issued.
SendWebhook(r) ==
  IF r.webhookUrl = NoHook
    THEN [r EXCEPT !.pc = "done"]
    ELSE [r EXCEPT !.pc = "posting", !.posts = @ + 1, !.postStatus = r.status]

\* Mutant of UpdateRow: the update saves every column of the instance, so
\* the webhookUrl of the snapshot goes back into the row.
UpdateRowSavesInstance(row, r, now) ==
  IF row.exists /\ row.id = r.id
    THEN [row EXCEPT !.lastStatus = r.status, !.lastChecked = now,
                     !.webhookUrl = r.webhookUrl]
    ELSE row

\* monitor.update({lastStatus, lastChecked}) on the instance: UPDATE ... WHERE
\* id = monitor.id, which writes these two columns of the row if it is still
\* there.
UpdateRow(row, r, now) ==
  IF row.exists /\ row.id = r.id
    THEN [row EXCEPT !.lastStatus = r.status, !.lastChecked = now]
    ELSE row

\* updateMonitorStatus: monitor.update resolves; handleMonitor goes on to
\* sendWebhook.
UpdateDone(n, t) ==
  /\ runs[n][t].pc = "updating"
  /\ monitors' = [monitors EXCEPT ![t] = UpdateRow(@, runs[n][t], minute)]
  /\ runs' = [runs EXCEPT ![n][t] = SendWebhook([@ EXCEPT !.updated = TRUE])]
  /\ UNCHANGED <<probe, probed, variant, logs, minute, epoch, deleting, tick,
                 faults>>

\* Mutant of UpdateFail: the error of monitor.update is swallowed inside
\* updateMonitorStatus and handleMonitor goes on to sendWebhook.
UpdateFailStillNotifies(n, t) ==
  /\ runs[n][t].pc = "updating"
  /\ faults < MaxFaults
  /\ faults' = faults + 1
  /\ runs' = [runs EXCEPT ![n][t] = SendWebhook([@ EXCEPT !.error = "update"])]
  /\ UNCHANGED <<probe, probed, variant, monitors, logs, minute, epoch,
                 deleting, tick>>

\* updateMonitorStatus: monitor.update rejects.
UpdateFail(n, t) ==
  /\ runs[n][t].pc = "updating"
  /\ faults < MaxFaults
  /\ faults' = faults + 1
  /\ runs' = [runs EXCEPT ![n] = Caught(@, t, "update")]
  /\ UNCHANGED <<probe, probed, variant, monitors, logs, minute, epoch,
                 deleting, tick>>

\* How the awaited POST can end: a 2xx response, another response, or a
\* rejection (connection error, socket timeout).
PostOutcomes == {"res2xx", "resOther", "error"}

\* Mutant of AfterPost: a rejected POST is not caught in sendWebhook and
\* reaches the catch block of handleMonitor.
AfterPostRethrow(r, o) ==
  [r EXCEPT !.pc = "done",
            !.error = IF o = "error" THEN "webhook" ELSE @,
            !.delivery = IF o = "res2xx" THEN "ok" ELSE "failed"]

\* sendWebhook after `await fetch(...)`: a response of any status is logged
\* as sent, a rejection is caught and logged; either way the call returns.
AfterPost(r, o) ==
  [r EXCEPT !.pc = "done",
            !.delivery = IF o = "res2xx" THEN "ok" ELSE "failed"]

WebhookDone(n, t, o) ==
  /\ runs[n][t].pc = "posting"
  /\ o \in PostOutcomes
  /\ runs' = [runs EXCEPT ![n][t] = AfterPost(@, o)]
  /\ UNCHANGED <<probe, probed, variant, monitors, logs, minute, epoch,
                 deleting, tick, faults>>

\* ---------------------------------------------------------- specification
Api ==
  \/ \E t \in Targets : AddMonitor(t)
  \/ \E t \in Targets, h \in Hooks : AddWebhook(t, h)
  \/ DeleteMonitors
  \/ DeleteLogs

Scheduler ==
  \/ CronFire
  \/ \E n \in Ticks : FindAllDone(n)
  \/ \E n \in Ticks : FindAllFail(n)
  \/ \E n \in Ticks : FanIn(n)

Pipeline ==
  \/ \E n \in Ticks, t \in Targets, o \in AllOutcomes :
       ProbeDone(n, t, o)
  \/ \E n \in Ticks, t \in Targets : CreateDone(n, t)
  \/ \E n \in Ticks, t \in Targets : CreateFail(n, t)
  \/ \E n \in Ticks, t \in Targets : UpdateDone(n, t)
  \/ \E n \in Ticks, t \in Targets : UpdateFail(n, t)
  \/ \E n \in Ticks, t \in Targets, o \in PostOutcomes : WebhookDone(n, t, o)

Next == Api \/ Scheduler \/ Pipeline

\* The whole program: MaxTicks cron firings, the API and the pipelines.
Spec == Init /\ [][Next]_vars

\* The behaviours of one checkMonitors call: a single cron firing, with the
\* API requests and store failures that can interleave with it.
FirstFire == minute = 0 /\ CronFire

OneTickNext ==
  \/ Api
  \/ FirstFire
  \/ \E n \in Ticks : FindAllDone(n)
  \/ \E n \in Ticks : FindAllFail(n)
  \/ \E n \in Ticks : FanIn(n)
  \/ Pipeline

OneTick == Init /\ [][OneTickNext]_vars

\* What the runtime guarantees to make progress: a ping and a HEAD request
\* end (by reply, error or the timeout), a store operation is answered, and
\* a resolved Promise.all resumes checkMonitors. Nothing bounds the webhook
\* POST: sendWebhook passes fetch neither a signal nor a timeout.
Fairness ==
  /\ WF_vars(\E n \in Ticks : FindAllDone(n))
  /\ WF_vars(\E n \in Ticks : FanIn(n))
  /\ WF_vars(\E n \in Ticks, t \in Targets, o \in AllOutcomes : ProbeDone(n, t, o))
  /\ WF_vars(\E n \in Ticks, t \in Targets : CreateDone(n, t))
  /\ WF_vars(\E n \in Ticks, t \in Targets : UpdateDone(n, t))

\* One checkMonitors call in a program whose store answers every request
\* and whose monitors are not deleted.
FairNext ==
  \/ \E t \in Targets : AddMonitor(t)
  \/ \E t \in Targets, h \in Hooks : AddWebhook(t, h)
  \/ FirstFire
  \/ \E n \in Ticks : FindAllDone(n)
  \/ \E n \in Ticks : FanIn(n)
  \/ \E n \in Ticks, t \in Targets, o \in AllOutcomes : ProbeDone(n, t, o)
  \/ \E n \in Ticks, t \in Targets : CreateDone(n, t)
  \/ \E n \in Ticks, t \in Targets : UpdateDone(n, t)
  \/ \E n \in Ticks, t \in Targets, o \in PostOutcomes : WebhookDone(n, t, o)

FairSpec == Init /\ [][FairNext]_vars /\ Fairness

\* How the network call of checkStatus ends when the remote host never
\* answers: the setTimeout(TIMEOUT_MS) callback aborts the HEAD request, and
\* ping gives up after its timeout option and reports the host not alive.
DeadlineOutcomes == {"abort", "noReply"}

\* One checkMonitors call whose monitored hosts never answer; the store and
\* the webhook endpoints do.
SilentNext ==
  \/ \E t \in Targets : AddMonitor(t)
  \/ \E t \in Targets, h \in Hooks : AddWebhook(t, h)
  \/ FirstFire
  \/ \E n \in Ticks : FindAllDone(n)
  \/ \E n \in Ticks : FanIn(n)
  \/ \E n \in Ticks, t \in Targets, o \in DeadlineOutcomes : ProbeDone(n, t, o)
  \/ \E n \in Ticks, t \in Targets : CreateDone(n, t)
  \/ \E n \in Ticks, t \in Targets : UpdateDone(n, t)
  \/ \E n \in Ticks, t \in Targets, o \in PostOutcomes : WebhookDone(n, t, o)

\* The timers fire: for each pending probe, the deadline step is taken.
SilentFairness ==
  \A n \in Ticks, t \in Targets :
    WF_vars(\E o \in DeadlineOutcomes : ProbeDone(n, t, o))

SilentSpec == Init /\ [][SilentNext]_vars /\ SilentFairness

\* ------------------------------------------------- checkStatus on its own
\* Addresses POST /add-monitor accepts (an IPv4 address or a URI).
Octets == {<<"0">>, <<"8">>, <<"1", "9", "9">>, <<"2", "0", "0">>,
           <<"2", "5", "5">>}
Quad(a, b, c, d) == a \o <<".">> \o b \o <<".">> \o c \o <<".">> \o d
Addresses ==
  {Quad(a, b, c, d) : a \in Octets, b \in Octets, c \in {<<"8">>}, d \in Octets}
    \cup {ipOrUrl("url")}

\* One call of checkStatus on a monitor with address s, whose network call
\* ends with outcome o.
ProbeCall(s, o) ==
  /\ o \in NetOutcomes(variant, s)
  /\ probe' = [address |-> s, outcome |-> o,
               result |-> checkStatus(variant, s, o)]
  /\ UNCHANGED <<probed, variant, monitors, logs, minute, epoch, deleting,
                 tick, runs, faults>>

ProbeNext == \E s \in Addresses, o \in AllOutcomes : ProbeCall(s, o)

ProbeSpec == Init /\ [][ProbeNext]_vars

\* ------------------------------------------------------------------ claims
\* C1: ticks never overlap: a checkMonitors call takes its snapshot and
\* starts its handleMonitor calls only when no handleMonitor call of an
\* earlier cron firing is still unfinished.
TicksNeverOverlap ==
  [][\A m \in Ticks :
       (tick[m] = "listing" /\ tick'[m] = "running") =>
         \A n \in Ticks, t \in Targets : n < m => ~Unfinished(runs[n][t])]_vars

\* The status the probe contract assigns to a finished call: the status
\* checkStatus returned, or Offline for a transport error.
ContractStatus(r) == IF r.error = "probe" THEN "offline" ELSE r.status

\* C2: a handleMonitor call creates a MonitorLog row if and only if the
\* probed status differs from the lastStatus of its monitor instance, also
\* when the probe ended in an error (calls whose MonitorLog.create was
\* itself rejected by the store are left aside).
EventIffStatusDiffers ==
  \A n \in Ticks, t \in Targets :
    (runs[n][t].pc = "done" /\ runs[n][t].error # "create") =>
      (runs[n][t].created <=> ContractStatus(runs[n][t]) # runs[n][t].lastStatus)

\* C3: the MonitorLog rows of one address, in creation order, never hold
\* two consecutive rows with the same status.
NoRepeatedStatusEvents ==
  \A t \in Targets : \A i \in 1..(Len(logs[t]) - 1) : logs[t][i] # logs[t][i + 1]

\* C4: a finished handleMonitor call has attempted exactly one POST, with
\* the row's status, for the MonitorLog row it created when its monitor has
\* a webhookUrl; it has attempted no POST without having created a row; and
\* without a webhookUrl it has attempted none, while the row it created comes
\* with the update of lastStatus.
OnePostPerStatusEvent ==
  \A n \in Ticks, t \in Targets :
    LET r == runs[n][t] IN
    r.pc = "done" =>
      /\ (r.created /\ r.webhookUrl # NoHook) =>
           (r.posts = 1 /\ r.postStatus = r.status)
      /\ r.posts > 0 => r.created
      /\ (r.created /\ r.webhookUrl = NoHook) => (r.posts = 0 /\ r.updated)

\* C5: checkStatus never raises: whatever its network call does, it returns
\* one of online, offline, timeout.
ProbeNeverRaises ==
  probe # NoProbe =>
    (~probe.result.threw /\ probe.result.status \in Statuses)

\* The status the probe contract gives a URL target for each outcome of the
\* HEAD request.
ContractUrlStatus(o) ==
  IF o = "res2xx" THEN "online"
  ELSE IF o = "abort" THEN "timeout"
  ELSE "offline"

\* C6: for a URL target checkStatus returns online for a 2xx response,
\* offline for any other response, timeout for the abort by the timeout
\* timer, and offline for any other transport error.
UrlProbeFollowsContract ==
  (probe # NoProbe /\ IsAbsoluteUrl(probe.address)) =>
    probe.result = Return(ContractUrlStatus(probe.outcome))

\* C7: every checkMonitors call that has started its handleMonitor calls
\* eventually sees its Promise.all resolve, whatever the webhook endpoints do.
TickEventuallyCompletes ==
  \A n \in Ticks : (tick[n] = "running") ~> (tick[n] = "complete")

\* C8: however the awaited webhook POST ends (also by a connection error or
\* a non-2xx response), the handleMonitor call returns without an error, with
\* its MonitorLog row and its update of the monitor in place, the Monitor and
\* MonitorLog tables untouched by that step, and one POST attempted in all.
WebhookFailureSwallowed ==
  [][\A n \in Ticks, t \in Targets :
       (runs[n][t].pc = "posting" /\ runs'[n][t] # runs[n][t]) =>
         /\ runs'[n][t].pc = "done"
         /\ runs'[n][t].error = "none"
         /\ runs'[n][t].posts = 1
         /\ runs'[n][t].created /\ runs'[n][t].updated
         /\ monitors' = monitors
         /\ logs' = logs]_vars

\* A webhook delivery has failed after the transition was recorded.
WebhookFailureSeen ==
  \E n \in Ticks, t \in Targets :
    /\ runs[n][t].pc = "done"
    /\ runs[n][t].delivery = "failed"
    /\ runs[n][t].created /\ runs[n][t].updated
    /\ logs[t] # <<>>
    /\ monitors[t].lastStatus = runs[n][t].status

\* A call for b that returned without an error of its own, in a
\* checkMonitors in which the call for a failed, has probed b and, if the
\* status differs from b's lastStatus, has created b's MonitorLog row and
\* updated b.
SiblingCompletes ==
  \A n \in Ticks, a \in Targets, b \in Targets :
    (a # b /\ runs[n][a].error # "none"
       /\ runs[n][b].pc = "done" /\ runs[n][b].error = "none") =>
      /\ runs[n][b].status \in Statuses
      /\ runs[n][b].status # runs[n][b].lastStatus =>
           (runs[n][b].created /\ runs[n][b].updated)

\* C9: the step in which the handleMonitor call of address a fails (in
\* checkStatus, MonitorLog.create or monitor.update) leaves the call of
\* every other address b of the same checkMonitors, b's Monitor row, b's
\* MonitorLog rows and the checkMonitors call as they were; and b's call
\* then runs to its end as SiblingCompletes says.
SiblingIsolation ==
  [][/\ \A n \in Ticks, a \in Targets, b \in Targets :
          (a # b /\ runs[n][a].error = "none" /\ runs'[n][a].error # "none") =>
            /\ runs'[n][b] = runs[n][b]
            /\ monitors'[b] = monitors[b]
            /\ logs'[b] = logs[b]
            /\ tick'[n] = tick[n]
     /\ SiblingCompletes']_vars

\* A sibling has recorded its transition in a tick in which another
\* pipeline failed.
SiblingRecordedDespiteFailure ==
  \E n \in Ticks, a \in Targets, b \in Targets :
    /\ a # b
    /\ runs[n][a].error # "none"
    /\ runs[n][b].pc = "done" /\ runs[n][b].error = "none"
    /\ runs[n][b].status # runs[n][b].lastStatus
    /\ runs[n][b].created /\ runs[n][b].updated
    /\ monitors[b].lastStatus = runs[n][b].status

\* The two most recent probes of address t returned the same status.
SameAsPreviousProbe(t) ==
  /\ Len(probed[t]) >= 2
  /\ probed[t][Len(probed[t])] = probed[t][Len(probed[t]) - 1]

\* C10: a handleMonitor call whose probed status equals its monitor's
\* lastStatus changes nothing (no MonitorLog row, no write of lastStatus or
\* lastChecked, no POST); so of two consecutive ticks that probe the same
\* status, the second does not add a second row for that status.
NoChangeNoEffect ==
  [][\A n \in Ticks, t \in Targets :
       /\ (runs[n][t].pc = "probing" /\ runs'[n][t].pc # "probing"
             /\ runs'[n][t].status = runs[n][t].lastStatus) =>
            /\ runs'[n][t].pc = "done"
            /\ runs'[n][t].posts = 0
            /\ logs' = logs
            /\ monitors' = monitors
       /\ (runs[n][t].pc = "creating" /\ runs'[n][t].created
             /\ SameAsPreviousProbe(t)) =>
            ~(logs[t] # <<>> /\ logs[t][Len(logs[t])] = runs[n][t].status)]_vars

\* A status sequence with consecutive repeats collapsed, relative to the
\* status `last` that precedes it.
RECURSIVE Collapse(_, _)
Collapse(last, seq) ==
  IF seq = <<>> THEN <<>>
  ELSE IF Head(seq) = last THEN Collapse(last, Tail(seq))
  ELSE <<Head(seq)>> \o Collapse(Head(seq), Tail(seq))

\* No handleMonitor call for address t is pending.
Settled(t) == \A n \in Ticks : ~Unfinished(runs[n][t])

\* C11: once the handleMonitor calls of an address have returned, its
\* MonitorLog rows, in creation order, are the statuses checkStatus returned
\* for it, in order, with consecutive repeats collapsed relative to the
\* lastStatus the monitor was stored with (no store operation has failed
\* and nothing was deleted).
EventsAreCollapsedProbes ==
  \A t \in Targets :
    (monitors[t].exists /\ Settled(t) /\ faults = 0 /\ epoch = 0) =>
      logs[t] = Collapse(DefaultStatus(variant), probed[t])

\* C12: no checkMonitors call ends with an error that nothing caught, not
\* even when Monitor.findAll or a stage of a handleMonitor call fails.
CheckMonitorsNeverRejects == \A n \in Ticks : tick[n] # "rejected"

\* The number a sequence of decimal digits denotes.
DigitValue(c) ==
  CASE c = "0" -> 0 [] c = "1" -> 1 [] c = "2" -> 2 [] c = "3" -> 3
    [] c = "4" -> 4 [] c = "5" -> 5 [] c = "6" -> 6 [] c = "7" -> 7
    [] c = "8" -> 8 [] c = "9" -> 9

RECURSIVE Decimal(_)
Decimal(p) ==
  IF p = <<>> THEN 0
  ELSE 10 * Decimal(SubSeq(p, 1, Len(p) - 1)) + DigitValue(p[Len(p)])

\* Four dot-separated decimal octets, each in 0..255.
IsStrictQuad(s) ==
  LET parts == SplitDots(s, 1, <<>>) IN
  /\ Len(parts) = 4
  /\ \A k \in 1..4 :
       /\ Len(parts[k]) \in 1..3
       /\ AllDigits(parts[k])
       /\ Decimal(parts[k]) \in 0..255

\* C13: checkStatus takes the ping branch for an address if and only if
\* the address is an IPv4 dotted quad with every octet in 0..255; every
\* other address goes to the HEAD request.
ClassifierAcceptsStrictQuads ==
  probe # NoProbe =>
    (probe.outcome \in PingOutcomes <=> IsStrictQuad(probe.address))

\* C14: no step of checkMonitors or of a handleMonitor call changes the
\* webhookUrl of a Monitor row, or which row an address has: whatever
\* POST /add-webhook stored stays as stored, also when the call updates
\* lastStatus and lastChecked through an instance read before the request.
PipelineKeepsWebhookUrl ==
  [][(runs' # runs \/ tick' # tick) =>
       \A t \in Targets :
         /\ monitors'[t].webhookUrl = monitors[t].webhookUrl
         /\ monitors'[t].exists = monitors[t].exists
         /\ monitors'[t].id = monitors[t].id]_vars

\* A handleMonitor call whose instance was read before POST /add-webhook
\* set the webhookUrl has updated the row, and the webhookUrl is in place.
HookSurvivesStaleUpdate ==
  \E n \in Ticks, t \in Targets :
    /\ monitors[t].webhookUrl # NoHook
    /\ runs[n][t].webhookUrl = NoHook
    /\ runs[n][t].updated
    /\ monitors[t].lastStatus = runs[n][t].status
    /\ monitors[t].lastChecked = minute

\* A handleMonitor call is in its reconcile step: it has compared the probed
\* status with monitor.lastStatus and found it different, and its
\* monitor.update has not settled.
Reconciling(r) == r.pc \in {"creating", "updating"}

\* C15: while a handleMonitor call is in its reconcile step, no step but
\* its own changes lastStatus, lastChecked or the existence of the Monitor
\* row of its address, or the MonitorLog rows of its address.
ReconcileIsAtomic ==
  [][\A n \in Ticks, t \in Targets :
       (Reconciling(runs[n][t]) /\ runs'[n][t] = runs[n][t]) =>
         /\ monitors'[t].exists = monitors[t].exists
         /\ monitors'[t].lastStatus = monitors[t].lastStatus
         /\ monitors'[t].lastChecked = monitors[t].lastChecked
         /\ logs'[t] = logs[t]]_vars

\* The Monitor row a handleMonitor call was started on is gone.
RowDeleted(t, r) == r.id # 0 /\ ~(monitors[t].exists /\ monitors[t].id = r.id)

\* C16: a handleMonitor call whose Monitor row was deleted by
\* /delete-all-monitors before its reconcile step creates no MonitorLog row
\* for the address and sends no webhook POST for it.
DeletedTargetLeavesNoTrace ==
  [][\A n \in Ticks, t \in Targets :
       (RowDeleted(t, runs[n][t]) /\ ~deleting
          /\ runs[n][t].pc \in {"probing", "creating", "updating"}) =>
         /\ Len(logs'[t]) <= Len(logs[t])
         /\ runs'[n][t].posts = runs[n][t].posts]_vars

\* The status of the most recently created MonitorLog row of address t, or
\* the default of lastStatus when it has none.
LatestEventStatus(t) ==
  IF logs[t] = <<>> THEN DefaultStatus(variant) ELSE logs[t][Len(logs[t])]

\* C17: whenever no handleMonitor call of an address is in its reconcile
\* step, lastStatus of its Monitor row is the status of its most recently
\* created MonitorLog row (the default when it has none).
LastStatusMatchesLatestEvent ==
  \A t \in Targets :
    (monitors[t].exists /\ \A n \in Ticks : ~Reconciling(runs[n][t])) =>
      monitors[t].lastStatus = LatestEventStatus(t)

StagesRunInOrder ==
  [][\A n \in Ticks, t \in Targets :
       /\ runs'[n][t].created => runs'[n][t].status \in Statuses
       /\ runs'[n][t].updated => runs'[n][t].created
       /\ runs'[n][t].posts > runs[n][t].posts =>
            /\ runs[n][t].created
            /\ runs'[n][t].updated
            /\ runs'[n][t].error = "none"
            /\ runs'[n][t].postStatus = runs[n][t].status
            /\ (monitors[t].exists /\ monitors[t].id = runs[n][t].id) =>
                 monitors'[t].lastStatus = runs[n][t].status
       /\ runs'[n][t].error \in {"create", "update"} =>
            (runs'[n][t].posts = 0 /\ runs'[n][t].pc = "done")]_vars

\* A webhook POST is pending for a transition whose MonitorLog row is in the
\* log and whose status is the row's lastStatus.
PostFollowsReconcile ==
  \E n \in Ticks, t \in Targets :
    /\ runs[n][t].pc = "posting"
    /\ runs[n][t].created /\ runs[n][t].updated
    /\ logs[t] # <<>> /\ logs[t][Len(logs[t])] = runs[n][t].status
    /\ monitors[t].lastStatus = runs[n][t].status

====
